---- MODULE Spec2Model ----
(***************************************************************************)
(* Model of the Litecoin storefront bot (src/main.py): per-customer        *)
(* deposit addresses, the credit pass that turns incoming outputs into     *)
(* balance, the background deposit watcher, the on-demand balance check    *)
(* and purchases paid from the balance.                                    *)
(*                                                                         *)
(* The store is one SQLite file.  Every db() call opens a new connection.  *)
(* A connection that has executed an INSERT/UPDATE holds the file's write  *)
(* lock until it commits or rolls back; any other connection that wants to *)
(* write waits for the lock and raises OperationalError when the busy      *)
(* timeout expires.  Readers see committed rows only.                      *)
(*                                                                         *)
(* LTC amounts (REAL columns) are kept exactly as a pair: whole satoshi    *)
(* and units of 10^-12 LTC below one satoshi, so that the 1e-12 tolerance  *)
(* of cb_buy is representable.                                             *)
(***************************************************************************)
EXTENDS Integers, Sequences, FiniteSets, TLC

\* ---------------------------------------------------------------- bounds
MaxHeight == 2        \* blocks the data source advances through
MaxTime == 1          \* ticks of the wall clock (created_at values)
MaxRestarts == 1      \* process restarts
MaxDebits == 2        \* successful balance debits per customer
MaxOrders == 2        \* rows of the orders table
MaxProducts == 5      \* rows of the products table

Users == {1, 2}       \* Telegram ids that talk to the bot
Watcher == 0          \* the deposit_watcher_loop task
Tasks == {1, 2}       \* concurrently running update handlers
Procs == {Watcher} \cup Tasks

\* ------------------------------------------------------------- constants
MIN_CONFIRMATIONS == 1
SCAN_LIMIT == 200
SubPerSat == 10000    \* 10^-8 LTC (one satoshi) in units of 10^-12 LTC
CITIES == <<"Buxoro", "Navoiy", "Samarqand", "Toshkent">>

\* ------------------------------------------------------------ LTC amounts
Ltc(s, u) == [sat |-> s, sub |-> u]
LtcZero == Ltc(0, 0)
\* the tolerance 1e-12 of cb_buy
Eps == Ltc(0, 1)

LtcAdd(a, b) ==
    LET s == a.sub + b.sub
    IN  Ltc(a.sat + b.sat + (s \div SubPerSat), s % SubPerSat)

\* UPDATE balances SET ltc = ltc - ?
LtcSubAdds(a, b) == LtcAdd(a, b)

LtcSub(a, b) ==
    LET s == a.sub - b.sub
    IN  IF s >= 0 THEN Ltc(a.sat - b.sat, s)
        ELSE Ltc(a.sat - b.sat - 1, s + SubPerSat)

LtcLess(a, b) == a.sat < b.sat \/ (a.sat = b.sat /\ a.sub < b.sub)

sat_to_ltc(sat) == Ltc(sat, 0)

RECURSIVE LtcSum(_)
LtcSum(s) == IF s = <<>> THEN LtcZero ELSE LtcAdd(Head(s), LtcSum(Tail(s)))

\* ------------------------------------------------------------ data source
\* The address derived for an index (BIP84 derivation is injective).
derive_ltc_address_from_xpub(index) == <<"ltc1", index>>

\* What the data source will report, by block: a record becomes visible one
\* block before it is mined (0 confirmations) and gains a confirmation per
\* block.  tx_input_n is a set: empty when the field is missing.
ChainTx == <<
    [address |-> derive_ltc_address_from_xpub(0), tx_hash |-> "t2", value |-> 0,
     tx_input_n |-> {-1}, block |-> 1],
    [address |-> derive_ltc_address_from_xpub(0), tx_hash |-> "t1", value |-> 2,
     tx_input_n |-> {-1}, block |-> 1],
    [address |-> derive_ltc_address_from_xpub(0), tx_hash |-> "t3", value |-> 3,
     tx_input_n |-> {0}, block |-> 1],
    [address |-> derive_ltc_address_from_xpub(0), tx_hash |-> "t5", value |-> 1,
     tx_input_n |-> {-1}, block |-> 2],
    [address |-> derive_ltc_address_from_xpub(1), tx_hash |-> "t4", value |-> 1,
     tx_input_n |-> {-1}, block |-> 2],
    [address |-> derive_ltc_address_from_xpub(1), tx_hash |-> "t6", value |-> 4,
     tx_input_n |-> {}, block |-> 1] >>

Confirmations(t, h) == h - t.block + 1

\* dict.get(key, default)
GetIncoming(field, default) == IF field = {} THEN -1 ELSE CHOOSE x \in field : TRUE

Get(field, default) == IF field = {} THEN default ELSE CHOOSE x \in field : TRUE

\* An output as the credit pass identifies it.
OutKey(o) == <<o.tx_hash, o.value>>
OutKeys == {<<ChainTx[i].tx_hash, ChainTx[i].value>> : i \in DOMAIN ChainTx}

\* The txrefs the endpoint returns for an address at a height.
TxRefs(address, h) ==
    SelectSeq(ChainTx, LAMBDA t : t.address = address /\ Confirmations(t, h) >= 0)

RECURSIVE MapOut(_, _)
MapOut(s, h) ==
    IF s = <<>> THEN <<>>
    ELSE <<[tx_hash |-> Head(s).tx_hash, value |-> Head(s).value,
            confirmations |-> Confirmations(Head(s), h)]>> \o MapOut(Tail(s), h)

fetch_incoming_outputs(address, h) ==
    MapOut(SelectSeq(TxRefs(address, h),
                     LAMBDA t : Get(t.tx_input_n, 0) = -1
                                /\ ~(Confirmations(t, h) < MIN_CONFIRMATIONS)), h)

\* Incoming records held back by the confirmation threshold at a height.
Unconfirmed(address, h) ==
    {OutKey(TxRefs(address, h)[i]) : i \in
        {j \in DOMAIN TxRefs(address, h) :
            /\ Get(TxRefs(address, h)[j].tx_input_n, 0) = -1
            /\ Confirmations(TxRefs(address, h)[j], h) < MIN_CONFIRMATIONS}}

\* if val_sat <= 0: continue
SkipsNegative(val_sat) == val_sat < 0

Skips(val_sat) == val_sat <= 0

RECURSIVE SeqKeys(_)
\* the outputs of a fetched list the pass will try to insert (value > 0)
SeqKeys(s) ==
    IF s = <<>> THEN {}
    ELSE (IF Skips(Head(s).value) THEN {} ELSE {OutKey(Head(s))}) \cup SeqKeys(Tail(s))


\* ------------------------------------------------------------------ state
VARIABLES
    ADMIN_ID,       \* int(os.getenv("ADMIN_ID") or "0"), read when the process starts
    users,          \* table users: rows [tg_id, city, addr_index, ltc_address, created_at]
    balances,       \* table balances: tg_id -> ltc
    products,       \* table products: id -> [name, price_ltc, is_active, delivery_*]
    orders,         \* table orders: sequence of rows, id = position
    reviews,        \* table reviews: sequence of rows, id = position
    credited_utx,   \* table credited_utx: committed rows
    lock,           \* the process whose open transaction holds the write lock
    height,         \* block height of the data source
    now,            \* int(time.time())
    epoch,          \* number of restarts of the bot process
    pc,             \* per task: the statement it is at
    op,             \* per task: the handler it runs
    lcl,            \* per task: local variables
    tg_ids,         \* deposit_watcher_loop: customers left in this iteration
    fsm,            \* aiogram FSM (MemoryStorage): per user the state and its data
    run,            \* history: what the pass in progress observed
    last,           \* history: the pass that finished last
    failed,         \* history: an exception has left a pass, a registration or
                    \* a purchase, or the process has stopped inside one
    ccount,         \* history: committed balance credits per customer and output
    debits,         \* history: committed balance debits per customer
    deferred,       \* history: outputs a fetch held back for confirmations
    seenLog,        \* history: outputs a fetch returned, with the epoch
    notes,          \* history: "deposit credited" notifications emitted
    handled         \* history: the update dispatched last and its handler

dbVars == <<users, balances, products, orders, reviews, credited_utx>>
envVars == <<height, now, ADMIN_ID>>
ghostVars == <<ccount, debits, deferred, seenLog, notes, handled>>
vars == <<ADMIN_ID, users, balances, products, orders, reviews, credited_utx, lock,
          height, now, epoch, pc, op, lcl, tg_ids, fsm, run, last, failed,
          ccount, debits, deferred, seenLog, notes, handled>>

L0 == [uid |-> 0, ret |-> "", idx |-> 0, outs |-> <<>>, pending |-> {},
       credited |-> 0, pid |-> 0, price |-> LtcZero]
P0 == [valid |-> FALSE, raised |-> FALSE, n |-> 0, fresh |-> {}]
R0 == [seen |-> {}, fresh |-> {}, gain |-> 0, peer |-> P0]
D0 == [valid |-> FALSE, by |-> 0, uid |-> 0, raised |-> FALSE, n |-> 0,
       pend |-> {}, gain |-> 0, rows |-> {}]
F0 == [state |-> "none", pid |-> 0, name |-> "", photo_url |-> "", rp |-> 0, rs |-> 0]
H0 == [uid |-> 0, state |-> "none", data |-> <<>>, paid |-> FALSE, handler |-> "none"]

\* init_db: empty tables, four seeded products
SeedRow(name, price) ==
    [name |-> name, price_ltc |-> price, is_active |-> 1,
     delivery_photo_url |-> "", delivery_text |-> "..."]
SeedProducts ==
    (1 :> SeedRow("Product A (0.5)", Ltc(350000, 0))) @@
    (2 :> SeedRow("Product A (1)", Ltc(630000, 0))) @@
    (3 :> SeedRow("Product B", Ltc(560000, 0))) @@
    (4 :> SeedRow("Product C (5)", Ltc(840000, 0)))

\* everything but the environment's ADMIN_ID
InitState ==
    /\ users = {}
    /\ balances = <<>>
    /\ products = SeedProducts
    /\ orders = <<>>
    /\ credited_utx = {}
    /\ lock = {}
    /\ height = 0
    /\ now = 0
    /\ epoch = 0
    /\ pc = [p \in Procs |-> IF p = Watcher THEN "w_sleep" ELSE "idle"]
    /\ op = [p \in Procs |-> IF p = Watcher THEN "watch" ELSE "idle"]
    /\ lcl = [p \in Procs |-> L0]
    /\ tg_ids = <<>>
    /\ fsm = [u \in Users |-> F0]
    /\ run = [p \in Procs |-> R0]
    /\ last = D0
    /\ ccount = [u \in Users |-> [k \in OutKeys |-> 0]]
    /\ debits = [u \in Users |-> <<>>]
    /\ deferred = {}
    /\ seenLog = {}
    /\ notes = {}
    /\ reviews = <<>>
    /\ failed = FALSE
    /\ handled = H0

\* The default deployment: user 1 is the admin.
Init == InitState /\ ADMIN_ID = 1

\* Any deployment: ADMIN_ID unset (0) or set to user 1.
InitAnyAdmin == InitState /\ ADMIN_ID \in {0, 1}

\* ------------------------------------------------------------- scheduling
\* Handlers run on one event loop: a handler that does not await holds the
\* loop from its first statement to its last.  Credit passes run in worker
\* threads (asyncio.to_thread) beside it.
InLoop(p) == op[p] \in {"start", "buy"}
LoopFree(p) == \A q \in Procs \ {p} : ~InLoop(q)
LoopIdle == \A q \in Procs : ~InLoop(q)

PassPcs == {"eu_select", "eu_next", "eu_insert", "fetch", "insert", "add_balance", "commit"}
InPass(p) == op[p] \in {"check", "watch"} /\ pc[p] \in PassPcs
PostFetch(p) == op[p] \in {"check", "watch"} /\ pc[p] \in {"insert", "add_balance", "commit"}

\* ---------------------------------------------------------------- SQLite
\* A connection other than the holder's cannot write while the lock is held.
WriteBlocked(l, p) == l \ {p} # {}
\* add_balance_ltc opens its own connection: it is blocked by any holder,
\* the caller's own first connection included.
SecondConnBlocked(l, p) == l # {}

\* `with db() as conn` left by an exception: the transaction is rolled back,
\* none of its rows is committed.
ExitCommitting(pend) == pend

ExitOnError(pend) == {}

HasUser(tg) == \E r \in users : r.tg_id = tg
UserRow(tg) == CHOOSE r \in users : r.tg_id = tg

\* ensure_user's INSERT INTO users and INSERT INTO balances: tg_id is the
\* primary key of both; an IntegrityError leaves both tables as they were.
RegisterUserOnly(us, bs, r) ==
    IF \E x \in us : x.tg_id = r.tg_id
    THEN [ok |-> FALSE, users |-> us, balances |-> bs]
    ELSE [ok |-> TRUE, users |-> us \cup {r}, balances |-> bs]

RegisterReplacing(us, bs, r) ==
    [ok |-> TRUE,
     users |-> {x \in us : x.tg_id # r.tg_id} \cup {r},
     balances |-> [t \in DOMAIN bs \cup {r.tg_id} |-> IF t = r.tg_id THEN LtcZero ELSE bs[t]]]

Register(us, bs, r) ==
    IF (\E x \in us : x.tg_id = r.tg_id) \/ r.tg_id \in DOMAIN bs
    THEN [ok |-> FALSE, users |-> us, balances |-> bs]
    ELSE [ok |-> TRUE, users |-> us \cup {r}, balances |-> bs @@ (r.tg_id :> LtcZero)]

\* ensure_user when derive_ltc_address_from_xpub raises: no statement of the
\* registration has been executed.
DeriveAfterInsert(us, bs, r) == [ok |-> FALSE, users |-> us \cup {r}, balances |-> bs]

DeriveRaised(us, bs, r) == [ok |-> FALSE, users |-> us, balances |-> bs]

UtxKey(r) == <<r.address, r.tx_hash, r.value_sat>>


\* SELECT MAX(addr_index) FROM users
next_address_index ==
    IF users = {} THEN 0
    ELSE (CHOOSE m \in {r.addr_index : r \in users} :
             \A r \in users : r.addr_index <= m) + 1

\* --------------------------------------------------- leaving a handler
\* The record of a pass that ends: what it had inserted and not committed
\* (pend), what it has made durable (rows, gain).
LastRec(p, raised, n, rows) ==
    [valid |-> TRUE, by |-> p, uid |-> lcl[p].uid, raised |-> raised, n |-> n,
     pend |-> {<<r.tx_hash, r.value_sat>> : r \in lcl[p].pending},
     gain |-> run[p].gain,
     rows |-> {<<r.tx_hash, r.value_sat>> : r \in rows}]

\* The passes that hold a fetched list for the same customer as p's pass.
Rivals(p) ==
    IF PostFetch(p)
    THEN {q \in Procs \ {p} : PostFetch(q) /\ lcl[q].uid = lcl[p].uid}
    ELSE {}

\* p's pass is over: the passes racing with it learn its result.
RunAfter(p, raised, n) ==
    [q \in Procs |->
        IF q = p THEN (IF raised THEN R0 ELSE [R0 EXCEPT !.gain = run[p].gain])
        ELSE IF q \in Rivals(p)
        THEN [run[q] EXCEPT !.peer = [valid |-> TRUE, raised |-> raised, n |-> n,
                                      fresh |-> run[p].fresh]]
        ELSE run[q]]

\* Where an exception that leaves a task's code ends up: the `except
\* Exception: pass` of deposit_watcher_loop, followed by its sleep; the
\* dispatcher for a handler (the task is over).
ExceptUncaught(p) == IF p = Watcher THEN "w_dead" ELSE "idle"

ExceptPc(p) == IF p = Watcher THEN "w_sleep" ELSE "idle"

\* The task is over: the watcher goes to its sleep, a handler task is free.
Idle(p) ==
    /\ pc' = [pc EXCEPT ![p] = IF p = Watcher THEN "w_sleep" ELSE "idle"]
    /\ op' = [op EXCEPT ![p] = IF p = Watcher THEN "watch" ELSE "idle"]
    /\ lcl' = [lcl EXCEPT ![p] = L0]
    /\ tg_ids' = IF p = Watcher THEN <<>> ELSE tg_ids

\* An exception leaves the handler: the open `with db()` block rolls back;
\* deposit_watcher_loop catches it (except Exception: pass) and sleeps, a
\* handler task ends.
Raise(p) ==
    /\ pc' = [pc EXCEPT ![p] = ExceptPc(p)]
    /\ op' = [op EXCEPT ![p] = IF p = Watcher THEN "watch" ELSE "idle"]
    /\ lcl' = [lcl EXCEPT ![p] = L0]
    /\ tg_ids' = IF p = Watcher THEN <<>> ELSE tg_ids
    /\ credited_utx' = credited_utx \cup ExitOnError(lcl[p].pending)
    /\ lock' = lock \ {p}
    /\ run' = RunAfter(p, TRUE, 0)
    /\ last' = IF InPass(p)
               THEN LastRec(p, TRUE, 0, ExitOnError(lcl[p].pending))
               ELSE last
    /\ failed' = TRUE

\* credit_new_incoming_for_user returns n to its caller.
Return(p, n, rows) ==
    /\ pc' = [pc EXCEPT ![p] = IF p = Watcher THEN "w_after" ELSE "reply"]
    /\ lcl' = [lcl EXCEPT ![p] = [L0 EXCEPT !.uid = lcl[p].uid, !.credited = n]]
    /\ run' = RunAfter(p, FALSE, n)
    /\ last' = LastRec(p, FALSE, n, rows)
    /\ UNCHANGED <<op, tg_ids, failed>>

\* Continue at pc `to`; "end" is the end of the handler.
Goto(p, to) ==
    IF to = "end" THEN Idle(p)
    ELSE /\ pc' = [pc EXCEPT ![p] = to]
         /\ UNCHANGED <<op, lcl, tg_ids>>

\* ------------------------------------------------------------ ensure_user
\* SELECT tg_id FROM users WHERE tg_id=?
eu_select(p) ==
    /\ pc[p] = "eu_select"
    /\ IF HasUser(lcl[p].uid) THEN Goto(p, lcl[p].ret) ELSE Goto(p, "eu_next")
    /\ UNCHANGED <<dbVars, lock, envVars, epoch, fsm, run, last, failed, ghostVars>>

\* idx = next_address_index()
eu_next(p) ==
    /\ pc[p] = "eu_next"
    /\ pc' = [pc EXCEPT ![p] = "eu_insert"]
    /\ lcl' = [lcl EXCEPT ![p].idx = next_address_index]
    /\ UNCHANGED <<dbVars, lock, envVars, epoch, op, tg_ids, fsm, run, last, failed,
                   ghostVars>>

\* addr = derive_ltc_address_from_xpub(idx); INSERT INTO users, INSERT INTO
\* balances, commit.  The derivation raises when bip_utils rejects LTC_XPUB.
eu_insert(p) ==
    /\ pc[p] = "eu_insert"
    /\ \E derived \in BOOLEAN :
         LET tg == lcl[p].uid
             row == [tg_id |-> tg, city |-> CITIES[1], addr_index |-> lcl[p].idx,
                     ltc_address |-> derive_ltc_address_from_xpub(lcl[p].idx),
                     created_at |-> now]
             reg == IF ~derived THEN DeriveRaised(users, balances, row)
                    ELSE IF WriteBlocked(lock, p)
                    THEN [ok |-> FALSE, users |-> users, balances |-> balances]
                    ELSE Register(users, balances, row)
         IN  /\ users' = reg.users
             /\ balances' = reg.balances
             /\ IF ~reg.ok
                THEN \* derivation error, OperationalError (busy timeout) or
                     \* IntegrityError
                     Raise(p)
                ELSE /\ Goto(p, lcl[p].ret)
                     /\ UNCHANGED <<credited_utx, lock, run, last, failed>>
    /\ UNCHANGED <<products, orders, reviews, envVars, epoch, fsm, ghostVars>>

\* ---------------------------------------------- credit_new_incoming_for_user
\* fetch_incoming_outputs raised: `except Exception: return 0`
fetch_error_propagates(p) == Raise(p)

on_fetch_error(p) == Return(p, 0, {})

\* user = get_user(tg_id); outs = fetch_incoming_outputs(addr), or return 0
fetch(p) ==
    /\ pc[p] = "fetch"
    /\ LET tg == lcl[p].uid
           addr == UserRow(tg).ltc_address
           outs == fetch_incoming_outputs(addr, height)
       IN  \E ok \in BOOLEAN :
             IF ok
             THEN /\ pc' = [pc EXCEPT ![p] = "insert"]
                  /\ lcl' = [lcl EXCEPT ![p].outs = outs]
                  /\ run' = [run EXCEPT ![p] =
                               [seen |-> SeqKeys(outs),
                                fresh |-> {k \in SeqKeys(outs) :
                                             <<addr, k[1], k[2]>> \notin
                                             {UtxKey(r) : r \in credited_utx}},
                                gain |-> 0, peer |-> P0]]
                  /\ deferred' = deferred \cup {<<tg, k>> : k \in Unconfirmed(addr, height)}
                  /\ seenLog' = seenLog \cup {<<tg, k, epoch>> : k \in SeqKeys(outs)}
                  /\ UNCHANGED <<op, tg_ids, last, failed>>
             ELSE /\ on_fetch_error(p)
                  /\ UNCHANGED <<deferred, seenLog>>
    /\ UNCHANGED <<dbVars, lock, envVars, epoch, fsm, ccount, debits, notes, handled>>

\* one turn of `for o in outs` up to the INSERT INTO credited_utx
insert(p) ==
    /\ pc[p] = "insert"
    /\ LET tg == lcl[p].uid
           outs == lcl[p].outs
           o == Head(outs)
           row == [tg_id |-> tg, address |-> UserRow(tg).ltc_address,
                   tx_hash |-> o.tx_hash, value_sat |-> o.value]
           visible == credited_utx \cup lcl[p].pending
       IN  IF outs = <<>>
           THEN /\ pc' = [pc EXCEPT ![p] = "commit"]
                /\ UNCHANGED <<lcl, lock, op, tg_ids, run, last, failed, credited_utx>>
           ELSE IF Skips(o.value)
           THEN /\ lcl' = [lcl EXCEPT ![p].outs = Tail(outs)]
                /\ UNCHANGED <<pc, lock, op, tg_ids, run, last, failed, credited_utx>>
           ELSE IF WriteBlocked(lock, p)
           THEN \* OperationalError: database is locked
                Raise(p)
           ELSE IF UtxKey(row) \in {UtxKey(r) : r \in visible}
           THEN \* sqlite3.IntegrityError: already credited
                /\ lock' = {p}
                /\ lcl' = [lcl EXCEPT ![p].outs = Tail(outs)]
                /\ UNCHANGED <<pc, op, tg_ids, run, last, failed, credited_utx>>
           ELSE /\ lock' = {p}
                /\ lcl' = [lcl EXCEPT ![p].pending = @ \cup {row}]
                /\ pc' = [pc EXCEPT ![p] = "add_balance"]
                /\ UNCHANGED <<op, tg_ids, run, last, failed, credited_utx>>
    /\ UNCHANGED <<users, balances, products, orders, reviews, envVars, epoch, fsm,
                   ghostVars>>

\* add_balance_ltc(tg_id, sat_to_ltc(val_sat)); credited += 1
add_balance_ltc(p) ==
    /\ pc[p] = "add_balance"
    /\ LET tg == lcl[p].uid
           o == Head(lcl[p].outs)
       IN  IF SecondConnBlocked(lock, p)
           THEN \* OperationalError: database is locked
                /\ Raise(p)
                /\ UNCHANGED <<balances, ccount>>
           ELSE /\ balances' = [u \in DOMAIN balances |->
                                  IF u = tg THEN LtcAdd(balances[u], sat_to_ltc(o.value))
                                  ELSE balances[u]]
                /\ ccount' = [ccount EXCEPT ![tg][OutKey(o)] = @ + 1]
                /\ lcl' = [lcl EXCEPT ![p].outs = Tail(@), ![p].credited = @ + 1]
                /\ run' = [run EXCEPT ![p].gain = @ + o.value]
                /\ pc' = [pc EXCEPT ![p] = "insert"]
                /\ UNCHANGED <<op, tg_ids, last, failed, lock, credited_utx>>
    /\ UNCHANGED <<users, products, orders, reviews, envVars, epoch, fsm, debits,
                   deferred, seenLog, notes, handled>>

\* conn.commit(); return credited
commit(p) ==
    /\ pc[p] = "commit"
    /\ credited_utx' = credited_utx \cup lcl[p].pending
    /\ lock' = lock \ {p}
    /\ Return(p, lcl[p].credited, lcl[p].pending)
    /\ UNCHANGED <<users, balances, products, orders, reviews, envVars, epoch, fsm,
                   ghostVars>>


RECURSIVE CreditedSat(_, _)
\* the satoshi credited to a customer, over a set of outputs
CreditedSat(u, ks) ==
    IF ks = {} THEN 0
    ELSE LET k == CHOOSE x \in ks : TRUE
         IN  ccount[u][k] * k[2] + CreditedSat(u, ks \ {k})

\* ------------------------------------------------------ deposit_watcher_loop
\* SELECT tg_id FROM users ORDER BY created_at DESC LIMIT 200
ScanOrders ==
    LET ids == {r.tg_id : r \in users}
        n == Cardinality(ids)
        all == {s \in [1..n -> ids] :
                  /\ \A i, j \in 1..n : i # j => s[i] # s[j]
                  /\ \A i, j \in 1..n :
                        i < j => UserRow(s[i]).created_at >= UserRow(s[j]).created_at}
    IN  {SubSeq(s, 1, IF n < SCAN_LIMIT THEN n ELSE SCAN_LIMIT) : s \in all}

\* the sleep ends; list the customers and start the first pass in a thread
w_list ==
    /\ pc[Watcher] = "w_sleep"
    /\ LoopFree(Watcher)
    /\ \E s \in ScanOrders :
         IF s = <<>>
         THEN UNCHANGED <<pc, lcl, tg_ids>>
         ELSE /\ tg_ids' = s
              /\ pc' = [pc EXCEPT ![Watcher] = "eu_select"]
              /\ lcl' = [lcl EXCEPT ![Watcher] = [L0 EXCEPT !.uid = Head(s), !.ret = "fetch"]]
    /\ UNCHANGED <<dbVars, lock, envVars, epoch, op, fsm, run, last, failed, ghostVars>>

\* if n > 0: the "deposit credited" notification is due
ShouldNotifyAlways(n) == n >= 0

ShouldNotify(n) == n > 0

\* The notification a task emits for the pass it has run: the count it
\* reports, what the pass itself added to the balance, and what is committed
\* for the customer at that moment.
Note(p, sent) ==
    [by |-> p, uid |-> lcl[p].uid, n |-> lcl[p].credited, gain |-> run[p].gain,
     rows |-> Cardinality({r \in credited_utx : r.tg_id = lcl[p].uid}),
     credits |-> CreditedSat(lcl[p].uid, OutKeys), sent |-> sent]

\* if n > 0: get_balance_ltc, send_message (try / except Exception: pass);
\* next customer
w_after ==
    /\ pc[Watcher] = "w_after"
    /\ LoopFree(Watcher)
    /\ IF ShouldNotify(lcl[Watcher].credited)
       THEN \E sent \in BOOLEAN : notes' = notes \cup {Note(Watcher, sent)}
       ELSE UNCHANGED notes
    /\ run' = [run EXCEPT ![Watcher] = R0]
    /\ LET rest == Tail(tg_ids)
       IN  IF rest = <<>>
           THEN Idle(Watcher)
           ELSE /\ tg_ids' = rest
                /\ pc' = [pc EXCEPT ![Watcher] = "eu_select"]
                /\ lcl' = [lcl EXCEPT ![Watcher] = [L0 EXCEPT !.uid = Head(rest), !.ret = "fetch"]]
                /\ UNCHANGED op
    /\ UNCHANGED <<dbVars, lock, envVars, epoch, fsm, last, failed, ccount, debits,
                   deferred, seenLog, handled>>

\* ----------------------------------------------------------------- handlers
\* cmd_start / fallback: ensure_user(m.from_user.id)
cmd_start(p, u) ==
    /\ pc[p] = "idle"
    /\ LoopFree(p)
    /\ pc' = [pc EXCEPT ![p] = "eu_select"]
    /\ op' = [op EXCEPT ![p] = "start"]
    /\ lcl' = [lcl EXCEPT ![p] = [L0 EXCEPT !.uid = u, !.ret = "end"]]
    /\ UNCHANGED <<dbVars, lock, envVars, epoch, tg_ids, fsm, run, last, failed,
                   ghostVars>>

\* cb_balance_check: await asyncio.to_thread(credit_new_incoming_for_user, id)
cb_balance_check(p, u) ==
    /\ pc[p] = "idle"
    /\ LoopFree(p)
    /\ pc' = [pc EXCEPT ![p] = "eu_select"]
    /\ op' = [op EXCEPT ![p] = "check"]
    /\ lcl' = [lcl EXCEPT ![p] = [L0 EXCEPT !.uid = u, !.ret = "fetch"]]
    /\ UNCHANGED <<dbVars, lock, envVars, epoch, tg_ids, fsm, run, last, failed,
                   ghostVars>>

\* cb_balance_check after the pass: get_balance_ltc; if n > 0 the
\* "deposit credited" text, else "no new deposits"
reply(p) ==
    /\ pc[p] = "reply"
    /\ LoopFree(p)
    /\ HasUser(lcl[p].uid)
    /\ IF ShouldNotify(lcl[p].credited)
       THEN \E sent \in BOOLEAN : notes' = notes \cup {Note(p, sent)}
       ELSE UNCHANGED notes
    /\ run' = [run EXCEPT ![p] = R0]
    /\ Idle(p)
    /\ UNCHANGED <<dbVars, lock, envVars, epoch, fsm, last, failed, ccount, debits,
                   deferred, seenLog, handled>>

\* callback data "buy:<pid>" a customer can send
BuyPids == {1, 5}

\* cb_buy up to bal = get_balance_ltc(...)
cb_buy(p, u, pid) ==
    /\ pc[p] = "idle"
    /\ LoopFree(p)
    /\ Len(debits[u]) < MaxDebits
    /\ Len(orders) < MaxOrders
    /\ IF pid \notin DOMAIN products \/ products[pid].is_active # 1
       THEN UNCHANGED <<pc, op, lcl>>
       ELSE /\ pc' = [pc EXCEPT ![p] = "eu_select"]
            /\ op' = [op EXCEPT ![p] = "buy"]
            /\ lcl' = [lcl EXCEPT ![p] = [L0 EXCEPT !.uid = u, !.ret = "buy_bal",
                                              !.pid = pid,
                                              !.price = products[pid].price_ltc]]
    /\ UNCHANGED <<dbVars, lock, envVars, epoch, tg_ids, fsm, run, last, failed,
                   ghostVars>>

\* the test of cb_buy on the balance read
Insufficient(bal, price) == LtcLess(LtcAdd(bal, Eps), price)

\* if bal + 1e-12 < price: refuse
buy_bal(p) ==
    /\ pc[p] = "buy_bal"
    /\ IF Insufficient(balances[lcl[p].uid], lcl[p].price)
       THEN Idle(p)
       ELSE Goto(p, "buy_sub")
    /\ UNCHANGED <<dbVars, lock, envVars, epoch, fsm, run, last, failed, ghostVars>>

\* sub_balance_ltc(c.from_user.id, price)
sub_balance_ltc(p) ==
    /\ pc[p] = "buy_sub"
    /\ LET tg == lcl[p].uid
       IN  IF WriteBlocked(lock, p)
           THEN /\ Raise(p)
                /\ UNCHANGED <<balances, debits>>
           ELSE /\ balances' = [u \in DOMAIN balances |->
                                  IF u = tg THEN LtcSub(balances[u], lcl[p].price)
                                  ELSE balances[u]]
                /\ debits' = [debits EXCEPT ![tg] = Append(@, lcl[p].price)]
                /\ Goto(p, "buy_order")
                /\ UNCHANGED <<credited_utx, lock, run, last, failed>>
    /\ UNCHANGED <<users, products, orders, reviews, envVars, epoch, fsm, ccount,
                   deferred, seenLog, notes, handled>>

\* INSERT INTO orders: the id is the next rowid
OrdersInsert(os, row) == Append(os, [row EXCEPT !.id = Len(os) + 1])

\* order_id = create_order_paid(c.from_user.id, pid, price); delivery
create_order_paid(p) ==
    /\ pc[p] = "buy_order"
    /\ IF WriteBlocked(lock, p)
       THEN /\ Raise(p)
            /\ UNCHANGED orders
       ELSE /\ orders' = OrdersInsert(orders, [id |-> 0, tg_id |-> lcl[p].uid,
                                               product_id |-> lcl[p].pid,
                                               amount_ltc |-> lcl[p].price,
                                               status |-> "PAID"])
            /\ Idle(p)
            /\ UNCHANGED <<credited_utx, lock, run, last, failed>>
    /\ UNCHANGED <<users, balances, products, reviews, envVars, epoch, fsm, ghostVars>>

\* callback data "city:set:<city>" a customer can send
CityInputs == {"Navoiy", "Paris"}
InCities(city) == \E i \in DOMAIN CITIES : CITIES[i] = city

\* cb_city_set: set_city(c.from_user.id, city)
cb_city_set(u, city) ==
    /\ LoopIdle
    /\ IF InCities(city) /\ lock = {}
       THEN users' = {IF r.tg_id = u THEN [r EXCEPT !.city = city] ELSE r : r \in users}
       ELSE UNCHANGED users
    /\ UNCHANGED <<balances, products, orders, reviews, credited_utx, lock, envVars,
                   epoch, pc, op, lcl, tg_ids, fsm, run, last, failed, ghostVars>>

\* ------------------------------------------------------------- dispatcher
\* Callback data "a:b:c" is the tuple <<a, b, c>>; data.startswith(prefix)
StartsWith(data, prefix) ==
    /\ Len(data) >= Len(prefix)
    /\ SubSeq(data, 1, Len(prefix)) = prefix

\* The callback_query handlers in the order of their registration, each with
\* its filter: the prefix of c.data and the FSM state it is bound to (a
\* handler registered without `state=` is bound to "no state").
CallbackHandlers == <<
    [name |-> "cb_reviews_nav", prefix |-> <<"rev">>, state |-> "none"],
    [name |-> "cb_review_add", prefix |-> <<"rev", "add">>, state |-> "none"],
    [name |-> "cb_rev_rating_product", prefix |-> <<"rev", "rp">>,
     state |-> "ReviewFlow:rating_product"],
    [name |-> "cb_rev_rating_service", prefix |-> <<"rev", "rs">>,
     state |-> "ReviewFlow:rating_service"],
    [name |-> "cb_adm_toggle", prefix |-> <<"adm", "toggle">>, state |-> "none"],
    [name |-> "cb_adm_price", prefix |-> <<"adm", "price">>, state |-> "none"],
    [name |-> "cb_adm_delivery", prefix |-> <<"adm", "delivery">>, state |-> "none"],
    [name |-> "cb_adm_add", prefix |-> <<"adm", "add">>, state |-> "none"] >>

\* The message handlers bound to an FSM state.
MessageHandlers == <<
    [name |-> "msg_rev_text", state |-> "ReviewFlow:text"],
    [name |-> "msg_adm_price", state |-> "AdminPrice:price"],
    [name |-> "msg_adm_delivery_photo", state |-> "AdminDelivery:photo_url"],
    [name |-> "msg_adm_delivery_text", state |-> "AdminDelivery:text"],
    [name |-> "msg_adm_add_name", state |-> "AdminAdd:name"],
    [name |-> "msg_adm_add_price", state |-> "AdminAdd:price"] >>

\* The dispatcher runs the first registered handler whose filters accept the
\* update, and no other.
FirstMatch(hs, ms) ==
    IF ms = {} THEN "none"
    ELSE hs[CHOOSE i \in ms : \A j \in ms : i <= j].name

CallbackHandler(state, data) ==
    FirstMatch(CallbackHandlers,
               {i \in DOMAIN CallbackHandlers :
                  /\ CallbackHandlers[i].state = state
                  /\ StartsWith(data, CallbackHandlers[i].prefix)})

MessageHandler(state) ==
    FirstMatch(MessageHandlers,
               {i \in DOMAIN MessageHandlers : MessageHandlers[i].state = state})

\* Callback data a user can send: the buttons of the keyboards, and data
\* made up by the client.
AdminPids == {1}
PriceData == {<<"adm", "price", pid>> : pid \in AdminPids}
AdminData == PriceData \cup {<<"adm", "toggle", 1>>, <<"adm", "delivery", 1>>,
                             <<"adm", "add">>}
ReviewData == {<<"rev", "add", 1>>, <<"rev", "next", 1>>, <<"rev", "rp", 5>>,
               <<"rev", "rs", 5>>, <<"rev", "rp", 6>>}
CallbackInputs == AdminData \cup ReviewData

\* The texts a user may type.
PriceTexts == {"abc", "0", "0.000000000001", "0.00000001"}
Texts == {"abc", "0", "0.000000000001", "0.00000001", "-", "https://x", " "}
\* of these: a name, a price, a picture URL, "no picture", and blank
AdminTexts == {"0.00000001", "https://x", "-", " "}
\* text.strip()
Strip(text) == IF text = " " THEN "" ELSE text
\* url.startswith("http://") or url.startswith("https://")
IsHttp(url) == url = "https://x"

\* ------------------------------------------------------------------ reviews
\* SELECT 1 FROM orders WHERE tg_id=? AND product_id=? AND status='PAID'
has_purchase(tg_id, pid) ==
    \E i \in DOMAIN orders :
        /\ orders[i].tg_id = tg_id
        /\ orders[i].product_id = pid
        /\ orders[i].status = "PAID"

\* cb_reviews_nav: pages through the reviews; any action other than prev
\* and next is answered and dropped
cb_reviews_nav(u, data) == UNCHANGED <<fsm, products, reviews>>

\* cb_review_add: a buyer of the product enters ReviewFlow.rating_product
cb_review_add(u, data) ==
    /\ IF has_purchase(u, data[3])
       THEN fsm' = [fsm EXCEPT ![u].pid = data[3],
                               ![u].state = "ReviewFlow:rating_product"]
       ELSE UNCHANGED fsm
    /\ UNCHANGED <<products, reviews>>

\* cb_rev_rating_product: a rating 1..5 of the product, then the service
cb_rev_rating_product(u, data) ==
    /\ IF data[3] < 1 \/ data[3] > 5
       THEN UNCHANGED fsm
       ELSE fsm' = [fsm EXCEPT ![u].rp = data[3],
                               ![u].state = "ReviewFlow:rating_service"]
    /\ UNCHANGED <<products, reviews>>

\* cb_rev_rating_service: a rating 1..5 of the service, then the text
cb_rev_rating_service(u, data) ==
    /\ IF data[3] < 1 \/ data[3] > 5
       THEN UNCHANGED fsm
       ELSE fsm' = [fsm EXCEPT ![u].rs = data[3], ![u].state = "ReviewFlow:text"]
    /\ UNCHANGED <<products, reviews>>

\* msg_rev_text: add_review(...) and state.finish() when the text has at
\* least 3 characters
msg_rev_text(u, text) ==
    /\ IF Len(Strip(text)) < 3 \/ lock # {}
       THEN UNCHANGED <<fsm, reviews>>
       ELSE /\ reviews' = Append(reviews,
                                 [id |-> Len(reviews) + 1, tg_id |-> u,
                                  product_id |-> fsm[u].pid,
                                  rating_product |-> fsm[u].rp,
                                  rating_service |-> fsm[u].rs,
                                  text |-> Strip(text), created_at |-> now])
            /\ fsm' = [fsm EXCEPT ![u] = F0]
    /\ UNCHANGED products

\* -------------------------------------------------------------------- admin
is_anyone(tg_id) == tg_id > 0

is_admin(tg_id) == ADMIN_ID > 0 /\ tg_id = ADMIN_ID

\* UPDATE products SET ... WHERE id=?
UpdateProduct(pid, row) ==
    [i \in DOMAIN products |-> IF i = pid THEN row ELSE products[i]]

\* cb_adm_toggle: toggle_product(pid)
cb_adm_toggle(u, data) ==
    /\ IF is_admin(u) /\ lock = {}
       THEN products' = UpdateProduct(data[3],
                [products[data[3]] EXCEPT !.is_active = IF @ = 1 THEN 0 ELSE 1])
       ELSE UNCHANGED products
    /\ UNCHANGED <<fsm, reviews>>

\* cb_adm_price: remember the product, ask for the price
cb_adm_price(u, data) ==
    /\ IF is_admin(u)
       THEN fsm' = [fsm EXCEPT ![u].pid = data[3], ![u].state = "AdminPrice:price"]
       ELSE UNCHANGED fsm
    /\ UNCHANGED <<products, reviews>>

\* float(text.replace(",", ".").strip()): the empty set when float() raises
ParseFloat(text) ==
    CASE text = "0" -> {LtcZero}
      [] text = "0.000000000001" -> {Ltc(0, 1)}
      [] text = "0.00000001" -> {Ltc(1, 0)}
      [] OTHER -> {}

\* msg_adm_price: set_price(pid, price) when the text is a price > 0
msg_adm_price(u, text) ==
    /\ LET parsed == ParseFloat(text)
           price == CHOOSE x \in parsed : TRUE
       IN  IF ~is_admin(u)
           THEN fsm' = [fsm EXCEPT ![u] = F0] /\ UNCHANGED products
           ELSE IF parsed = {} \/ ~LtcLess(LtcZero, price)
           THEN UNCHANGED <<fsm, products>>
           ELSE IF lock # {}
           THEN \* set_price raises: the handler ends, the state stays
                UNCHANGED <<fsm, products>>
           ELSE /\ products' = UpdateProduct(fsm[u].pid,
                                   [products[fsm[u].pid] EXCEPT !.price_ltc = price])
                /\ fsm' = [fsm EXCEPT ![u] = F0]
    /\ UNCHANGED reviews

\* cb_adm_delivery: remember the product, ask for the picture URL
cb_adm_delivery(u, data) ==
    /\ IF is_admin(u)
       THEN fsm' = [fsm EXCEPT ![u].pid = data[3],
                               ![u].state = "AdminDelivery:photo_url"]
       ELSE UNCHANGED fsm
    /\ UNCHANGED <<products, reviews>>

\* msg_adm_delivery_photo: "-", nothing or an http(s) URL
msg_adm_delivery_photo(u, text) ==
    /\ LET url == Strip(text)
       IN  IF ~is_admin(u)
           THEN fsm' = [fsm EXCEPT ![u] = F0]
           ELSE IF url # "-" /\ url # "" /\ ~IsHttp(url)
           THEN UNCHANGED fsm
           ELSE fsm' = [fsm EXCEPT ![u].photo_url = IF url = "-" THEN "" ELSE url,
                                   ![u].state = "AdminDelivery:text"]
    /\ UNCHANGED <<products, reviews>>

\* msg_adm_delivery_text: set_delivery(pid, photo_url, text)
msg_adm_delivery_text(u, text) ==
    /\ IF ~is_admin(u)
       THEN fsm' = [fsm EXCEPT ![u] = F0] /\ UNCHANGED products
       ELSE IF Len(Strip(text)) < 1 \/ lock # {}
       THEN UNCHANGED <<fsm, products>>
       ELSE /\ products' = UpdateProduct(fsm[u].pid,
                               [products[fsm[u].pid] EXCEPT
                                   !.delivery_photo_url = fsm[u].photo_url,
                                   !.delivery_text = Strip(text)])
            /\ fsm' = [fsm EXCEPT ![u] = F0]
    /\ UNCHANGED reviews

\* cb_adm_add: ask for the name of the new product
cb_adm_add(u, data) ==
    /\ IF is_admin(u)
       THEN fsm' = [fsm EXCEPT ![u].state = "AdminAdd:name"]
       ELSE UNCHANGED fsm
    /\ UNCHANGED <<products, reviews>>

\* msg_adm_add_name: a name of at least 2 characters, then the price
msg_adm_add_name(u, text) ==
    /\ IF ~is_admin(u)
       THEN fsm' = [fsm EXCEPT ![u] = F0]
       ELSE IF Len(Strip(text)) < 2
       THEN UNCHANGED fsm
       ELSE fsm' = [fsm EXCEPT ![u].name = Strip(text), ![u].state = "AdminAdd:price"]
    /\ UNCHANGED <<products, reviews>>

\* INSERT INTO products: the id is the next AUTOINCREMENT value
add_product(name, price_ltc) ==
    LET ids == DOMAIN products
        top == CHOOSE m \in ids : \A i \in ids : i <= m
    IN  products @@ (top + 1 :>
                       [name |-> name, price_ltc |-> price_ltc, is_active |-> 1,
                        delivery_photo_url |-> "", delivery_text |-> "..."])

\* msg_adm_add_price: add_product(name, price) when the text is a price > 0
msg_adm_add_price(u, text) ==
    /\ LET parsed == ParseFloat(text)
           price == CHOOSE x \in parsed : TRUE
       IN  IF ~is_admin(u)
           THEN fsm' = [fsm EXCEPT ![u] = F0] /\ UNCHANGED products
           ELSE IF parsed = {} \/ ~LtcLess(LtcZero, price) \/ lock # {}
           THEN UNCHANGED <<fsm, products>>
           ELSE /\ products' = add_product(fsm[u].name, price)
                /\ fsm' = [fsm EXCEPT ![u] = F0]
    /\ UNCHANGED reviews

\* ---------------------------------------------------------------- updates
\* A callback query of user u arrives: the dispatcher runs the first
\* handler that accepts it, on the event loop.
on_callback_query(u, data) ==
    /\ LoopIdle
    /\ LET h == CallbackHandler(fsm[u].state, data)
       IN  /\ handled' = [uid |-> u, state |-> fsm[u].state, data |-> data,
                          paid |-> (StartsWith(data, <<"rev", "add">>)
                                     /\ has_purchase(u, data[3])),
                          handler |-> h]
           /\ CASE h = "cb_reviews_nav" -> cb_reviews_nav(u, data)
                [] h = "cb_review_add" -> cb_review_add(u, data)
                [] h = "cb_rev_rating_product" -> cb_rev_rating_product(u, data)
                [] h = "cb_rev_rating_service" -> cb_rev_rating_service(u, data)
                [] h = "cb_adm_toggle" -> cb_adm_toggle(u, data)
                [] h = "cb_adm_price" -> cb_adm_price(u, data)
                [] h = "cb_adm_delivery" -> cb_adm_delivery(u, data)
                [] h = "cb_adm_add" -> cb_adm_add(u, data)
                [] OTHER -> UNCHANGED <<fsm, products, reviews>>
    /\ UNCHANGED <<users, balances, orders, credited_utx, lock, envVars, epoch,
                   pc, op, lcl, tg_ids, run, last, failed, ccount, debits,
                   deferred, seenLog, notes>>

\* A text message of user u arrives while u is in an FSM state: the handler
\* bound to that state runs, if there is one.
on_message(u, text) ==
    /\ LoopIdle
    /\ fsm[u].state # "none"
    /\ LET h == MessageHandler(fsm[u].state)
       IN  /\ h = "msg_adm_add_price" => Cardinality(DOMAIN products) < MaxProducts
           /\ handled' = [uid |-> u, state |-> fsm[u].state, data |-> <<"msg", text>>,
                          paid |-> FALSE, handler |-> h]
           /\ CASE h = "msg_rev_text" -> msg_rev_text(u, text)
                [] h = "msg_adm_price" -> msg_adm_price(u, text)
                [] h = "msg_adm_delivery_photo" -> msg_adm_delivery_photo(u, text)
                [] h = "msg_adm_delivery_text" -> msg_adm_delivery_text(u, text)
                [] h = "msg_adm_add_name" -> msg_adm_add_name(u, text)
                [] h = "msg_adm_add_price" -> msg_adm_add_price(u, text)
                [] OTHER -> UNCHANGED <<fsm, products, reviews>>
    /\ UNCHANGED <<users, balances, orders, credited_utx, lock, envVars, epoch,
                   pc, op, lcl, tg_ids, run, last, failed, ccount, debits,
                   deferred, seenLog, notes>>

\* -------------------------------------------------------------- environment
\* the chain grows by a block
Mine ==
    /\ height < MaxHeight
    /\ height' = height + 1
    /\ UNCHANGED <<dbVars, lock, now, ADMIN_ID, epoch, pc, op, lcl, tg_ids, fsm, run, last,
                   failed, ghostVars>>

\* a second passes
Tick ==
    /\ now < MaxTime
    /\ now' = now + 1
    /\ UNCHANGED <<dbVars, lock, height, ADMIN_ID, epoch, pc, op, lcl, tg_ids, fsm, run, last,
                   failed, ghostVars>>

\* init_db at startup: CREATE TABLE IF NOT EXISTS leaves an existing orders
\* table and its rows as they are.
init_db_recreates(os) == <<>>

init_db_orders(os) == os

\* The process stops at any point and is started again: tasks, threads, open
\* transactions and the in-memory FSM storage are gone, the database file is
\* kept; on_startup runs init_db (nothing to create or seed) and starts
\* deposit_watcher_loop.
Restart ==
    /\ epoch < MaxRestarts
    /\ epoch' = epoch + 1
    /\ lock' = {}
    /\ pc' = [p \in Procs |-> IF p = Watcher THEN "w_sleep" ELSE "idle"]
    /\ op' = [p \in Procs |-> IF p = Watcher THEN "watch" ELSE "idle"]
    /\ lcl' = [p \in Procs |-> L0]
    /\ tg_ids' = <<>>
    /\ fsm' = [u \in Users |-> F0]
    /\ run' = [p \in Procs |-> R0]
    /\ orders' = init_db_orders(orders)
    /\ failed' = (failed \/ \E p \in Procs : pc[p] \notin {"idle", "w_sleep"})
    /\ handled' = H0
    /\ UNCHANGED <<users, balances, products, reviews, credited_utx, envVars, last,
                   ccount, debits, deferred, seenLog, notes>>

\* ---------------------------------------------------------- specification
Next ==
    \/ \E p \in Procs : eu_select(p)
    \/ \E p \in Procs : eu_next(p)
    \/ \E p \in Procs : eu_insert(p)
    \/ \E p \in Procs : fetch(p)
    \/ \E p \in Procs : insert(p)
    \/ \E p \in Procs : add_balance_ltc(p)
    \/ \E p \in Procs : commit(p)
    \/ w_list
    \/ w_after
    \/ \E p \in Tasks, u \in Users : cmd_start(p, u)
    \/ \E p \in Tasks, u \in Users : cb_balance_check(p, u)
    \/ \E p \in Tasks : reply(p)
    \/ \E p \in Tasks, u \in Users, pid \in BuyPids : cb_buy(p, u, pid)
    \/ \E p \in Tasks : buy_bal(p)
    \/ \E p \in Tasks : sub_balance_ltc(p)
    \/ \E p \in Tasks : create_order_paid(p)
    \/ \E u \in Users, city \in CityInputs : cb_city_set(u, city)
    \/ \E u \in Users, data \in CallbackInputs : on_callback_query(u, data)
    \/ \E u \in Users, text \in Texts : on_message(u, text)
    \/ Mine
    \/ Tick
    \/ Restart

Spec == Init /\ [][Next]_vars


\* The credit pass: one customer, the watcher and one on-demand check.
NextCredit ==
    \/ \E p \in Procs : eu_select(p)
    \/ \E p \in Procs : eu_next(p)
    \/ \E p \in Procs : eu_insert(p)
    \/ \E p \in Procs : fetch(p)
    \/ \E p \in Procs : insert(p)
    \/ \E p \in Procs : add_balance_ltc(p)
    \/ \E p \in Procs : commit(p)
    \/ w_list
    \/ w_after
    \/ cb_balance_check(1, 1)
    \/ reply(1)
    \/ Mine
    \/ Restart

SpecCredit == Init /\ [][NextCredit]_vars

\* Registration: two customers; task 1 registers on the event loop
\* (cmd_start), task 2 in a worker thread (the pass of cb_balance_check).
NextAlloc ==
    \/ \E p \in Procs : eu_select(p)
    \/ \E p \in Procs : eu_next(p)
    \/ \E p \in Procs : eu_insert(p)
    \/ \E p \in Procs : fetch(p)
    \/ \E p \in Procs : insert(p)
    \/ \E p \in Procs : add_balance_ltc(p)
    \/ \E p \in Procs : commit(p)
    \/ \E u \in Users : cmd_start(1, u)
    \/ \E u \in Users : cb_balance_check(2, u)
    \/ reply(2)
    \/ \E u \in Users, city \in CityInputs : cb_city_set(u, city)
    \/ Mine

SpecAlloc == Init /\ [][NextAlloc]_vars

\* Purchases: the admin (user 1) prices a product, customer 2 buys in task 1
\* beside credit passes for the same customer in task 2.
NextBuy ==
    \/ \E p \in Procs : eu_select(p)
    \/ \E p \in Procs : eu_next(p)
    \/ \E p \in Procs : eu_insert(p)
    \/ \E p \in Procs : fetch(p)
    \/ \E p \in Procs : insert(p)
    \/ \E p \in Procs : add_balance_ltc(p)
    \/ \E p \in Procs : commit(p)
    \/ cb_balance_check(2, 2)
    \/ reply(2)
    \/ \E pid \in BuyPids : cb_buy(1, 2, pid)
    \/ buy_bal(1)
    \/ sub_balance_ltc(1)
    \/ create_order_paid(1)
    \/ \E data \in PriceData : on_callback_query(1, data)
    \/ \E text \in PriceTexts : on_message(1, text)
    \/ Mine
    \/ Restart

SpecBuy == Init /\ [][NextBuy]_vars


\* The watcher beside handlers: customer 2 registers on the event loop and
\* checks the balance (worker thread).  A worker thread keeps
\* running (WF on the watcher's pass), a handler that holds the event loop
\* runs to its end (WF on task 2), and the event loop serves every ready
\* task in turn (SF on the watcher's steps on the loop).
WatcherPass ==
    \/ eu_select(Watcher) \/ eu_next(Watcher) \/ eu_insert(Watcher)
    \/ fetch(Watcher) \/ insert(Watcher) \/ add_balance_ltc(Watcher)
    \/ commit(Watcher)

RegisterSteps == eu_select(2) \/ eu_next(2) \/ eu_insert(2)

NextWatch ==
    \/ \E p \in Procs : eu_select(p)
    \/ \E p \in Procs : eu_next(p)
    \/ \E p \in Procs : eu_insert(p)
    \/ \E p \in Procs : fetch(p)
    \/ \E p \in Procs : insert(p)
    \/ \E p \in Procs : add_balance_ltc(p)
    \/ \E p \in Procs : commit(p)
    \/ w_list
    \/ w_after
    \/ cb_balance_check(1, 2)
    \/ reply(1)
    \/ cmd_start(2, 2)
    \/ Mine

SpecWatch ==
    /\ Init /\ [][NextWatch]_vars
    /\ WF_vars(WatcherPass)
    /\ WF_vars(RegisterSteps)
    /\ SF_vars(w_list)
    /\ SF_vars(w_after)

\* ------------------------------------------------------------ properties
\* A step in which p's credit pass, having fetched, comes to its end.
Finishes(p) ==
    /\ PostFetch(p)
    /\ pc'[p] \notin {"insert", "add_balance", "commit"}
    /\ epoch' = epoch
\* ... by returning its count
Returns(p) == Finishes(p) /\ pc'[p] \in {"reply", "w_after"}

RowsOf(table, u, k) ==
    {r \in table : r.tg_id = u /\ r.tx_hash = k[1] /\ r.value_sat = k[2]}

RECURSIVE SumValues(_)
SumValues(ks) ==
    IF ks = {} THEN 0
    ELSE LET k == CHOOSE x \in ks : TRUE IN k[2] + SumValues(ks \ {k})

\* C1: an output observed by a credit pass of a customer, any number of
\* times, has been added to the balance exactly once and has exactly one
\* credited_utx row when the pass ends; a pass that observes nothing new
\* returns 0 and changes nothing.
C1_NoDoubleCreditAcrossPolls ==
    [][\A p \in Procs : Finishes(p) =>
         /\ \A k \in run[p].seen :
               /\ ccount'[lcl[p].uid][k] = 1
               /\ Cardinality(RowsOf(credited_utx', lcl[p].uid, k)) = 1
         /\ run[p].fresh = {} =>
               /\ Returns(p) /\ lcl'[p].credited = 0
               /\ run[p].gain = 0 /\ credited_utx' = credited_utx]_vars

\* C2: a background pass and an on-demand pass for the same customer that
\* both hold the same new output: both return, the counts add up to the
\* number of new outputs, each shared output is in the balance once and has
\* one row.
C2_RaceCreditsOnce ==
    [][\A p \in Procs : (Finishes(p) /\ run[p].peer.valid
                         /\ run[p].fresh \cap run[p].peer.fresh # {}) =>
         /\ Returns(p) /\ ~run[p].peer.raised
         /\ lcl'[p].credited + run[p].peer.n
               = Cardinality(run[p].fresh \cup run[p].peer.fresh)
         /\ \A k \in run[p].fresh \cap run[p].peer.fresh :
               /\ ccount'[lcl[p].uid][k] = 1
               /\ Cardinality(RowsOf(credited_utx', lcl[p].uid, k)) = 1]_vars

\* C3: the insert and the balance increase of an output are one transaction:
\* the balance update of a pass runs in the transaction that holds the
\* insert (it is not shut out by that transaction's write lock), and in every
\* committed state the balance holds an output iff its row is committed.
C3_CreditAtomicity ==
    /\ \A p \in Procs : pc[p] = "add_balance" => ~SecondConnBlocked(lock, p)
    /\ \A u \in Users, k \in OutKeys :
          ccount[u][k] >= 1 <=> RowsOf(credited_utx, u, k) # {}

\* C4: an output observed before a restart and observed again by a pass
\* after it is in the balance exactly once when that pass ends.
C4_RestartDurability ==
    [][\A p \in Procs : Finishes(p) =>
         \A k \in run[p].seen :
            (\E e \in 0..(epoch - 1) : <<lcl[p].uid, k, e>> \in seenLog) =>
               /\ ccount'[lcl[p].uid][k] = 1
               /\ Cardinality(RowsOf(credited_utx', lcl[p].uid, k)) = 1]_vars

\* C5: a pass ended by a storage failure has left nothing behind: no balance
\* increase and no credited_utx row of its own is committed.
C5_AllOrNothing ==
    (last.valid /\ last.raised) => (last.gain = 0 /\ last.rows = {})

\* a pass had inserted a row when its balance update raised
C5_Witness == last.valid /\ last.raised /\ last.pend # {}

\* C6: an output held back for confirmations is neither credited nor
\* recorded while it is below the threshold, and is in the balance exactly
\* once when a later pass that observes it confirmed ends.
C6_ConfirmationGating ==
    [][/\ \A r \in users' : \A k \in Unconfirmed(r.ltc_address, height') :
             ccount'[r.tg_id][k] = 0 /\ RowsOf(credited_utx', r.tg_id, k) = {}
       /\ \A p \in Procs : Finishes(p) =>
             \A k \in run[p].seen :
                <<lcl[p].uid, k>> \in deferred =>
                   /\ ccount'[lcl[p].uid][k] = 1
                   /\ Cardinality(RowsOf(credited_utx', lcl[p].uid, k)) = 1]_vars

\* C7: no balance is negative, and what a customer has been debited never
\* exceeds what the customer has been credited.
C7_BalanceNeverNegative ==
    \A u \in DOMAIN balances :
        /\ ~LtcLess(balances[u], LtcZero)
        /\ ~LtcLess(sat_to_ltc(CreditedSat(u, OutKeys)), LtcSum(debits[u]))

\* C8: no two customers share an index or an address, and a new customer's
\* index is greater than every index assigned before.
C8_AddressesCollisionFree ==
    [][/\ \A r1, r2 \in users' :
             r1.tg_id # r2.tg_id =>
                r1.addr_index # r2.addr_index /\ r1.ltc_address # r2.ltc_address
       /\ \A r \in users' :
             (\A s \in users : s.tg_id # r.tg_id) =>
                \A s \in users : r.addr_index > s.addr_index]_vars

\* C9: once a customer has a users row, every later step (calls of
\* ensure_user / get_user included) leaves exactly that one row with the
\* same addr_index and ltc_address.
C9_AllocationIdempotent ==
    [][\A r \in users :
          /\ Cardinality({x \in users' : x.tg_id = r.tg_id}) = 1
          /\ \A x \in users' :
                x.tg_id = r.tg_id =>
                   x.addr_index = r.addr_index /\ x.ltc_address = r.ltc_address]_vars

\* a customer whose city was changed has gone through get_user again
C9_Witness ==
    \E r \in users :
        /\ r.city # CITIES[1]
        /\ \E p \in Procs : lcl[p].uid = r.tg_id /\ pc[p] = "reply"
        /\ Cardinality(users) = 2

\* C10: a pass whose fetch succeeded returns the number of new outputs, has
\* added the sum of their values to the balance and has recorded each.
C10_EveryNewOutputCredited ==
    [][\A p \in Procs : Finishes(p) =>
         /\ Returns(p)
         /\ lcl'[p].credited = Cardinality(run[p].fresh)
         /\ run[p].gain = SumValues(run[p].fresh)
         /\ \A k \in run[p].fresh : RowsOf(credited_utx', lcl[p].uid, k) # {}]_vars


\* C11: no exception raised inside an iteration of deposit_watcher_loop ends
\* the task: the loop is at its sleep again and again, and while there are
\* customers to scan it leaves the sleep for another iteration again and
\* again.
C11_WatcherNeverStops ==
    /\ []<>(pc[Watcher] = "w_sleep")
    /\ [](users # {} => <>(pc[Watcher] # "w_sleep"))

\* the watcher is in a new pass after a pass of its own raised
C11_Witness ==
    /\ last.valid /\ last.raised /\ last.by = Watcher
    /\ pc[Watcher] = "fetch"

\* C12: when fetch_incoming_outputs raises, the pass returns 0 to its caller
\* (it does not raise), no balance and no credited_utx row changes, and the
\* caller has nothing to announce.
C12_FetchFailureIsNoNews ==
    [][\A p \in Procs :
         (pc[p] = "fetch" /\ pc'[p] \notin {"fetch", "insert"} /\ epoch' = epoch) =>
            /\ pc'[p] \in {"reply", "w_after"}
            /\ lcl'[p].credited = 0
            /\ ~ShouldNotify(lcl'[p].credited)
            /\ balances' = balances
            /\ credited_utx' = credited_utx
            /\ ccount' = ccount]_vars

\* an on-demand pass has returned although no fetch ever succeeded, at a
\* height where the data source has confirmed outputs
C12_Witness ==
    /\ height >= 1
    /\ seenLog = {} /\ deferred = {}
    /\ \E p \in Tasks : pc[p] = "reply" /\ lcl[p].credited = 0

\* The step in which p's pass ends with its inserted rows rolled back.
RolledBack(p) ==
    /\ InPass(p) /\ lcl[p].pending # {}
    /\ pc'[p] \notin PassPcs
    /\ epoch' = epoch
    /\ lcl[p].pending \cap credited_utx' = {}

\* C13: every "deposit credited" notification is emitted when the rows and
\* the balance increase it reports are committed: the task that emits it has
\* run a pass that added to the balance, and at least as many rows of the
\* customer are committed as it reports; a pass whose inserted rows are
\* rolled back is followed by no notification.
C13_NotificationFollowsCommit ==
    [][/\ \A note \in notes' :
             /\ note.n >= 1 /\ note.gain >= note.n
             /\ note.rows >= note.n
             /\ note.credits >= note.gain
       /\ \A p \in Procs : RolledBack(p) =>
             /\ notes' = notes
             /\ pc'[p] \notin {"reply", "w_after"}]_vars

\* the watcher's pass had inserted a row, was rolled back, and the watcher
\* sleeps without having announced anything
C13_Witness ==
    /\ last.valid /\ last.raised /\ last.by = Watcher /\ last.pend # {}
    /\ last.rows = {}
    /\ pc[Watcher] = "w_sleep"
    /\ notes = {}

\* The step in which task p is past the pass and answers its caller.
Answers(p) == pc[p] \in {"reply", "w_after"} /\ pc'[p] # pc[p] /\ epoch' = epoch

EnsureEnds(p) == pc[p] = "eu_insert" /\ pc'[p] # "eu_insert" /\ epoch' = epoch

\* C16: ensure_user either registers the customer with a users row and a
\* balances row, or fails and leaves both tables as they were; in both cases
\* the rows of every other customer, the write lock and every other task are
\* untouched, so later operations of registered customers run as before.
C16_DerivationFailureIsLocal ==
    [][\A p \in Procs : EnsureEnds(p) =>
         /\ \/ users' = users /\ balances' = balances
            \/ /\ \E r \in users' : r.tg_id = lcl[p].uid /\ users' = users \cup {r}
               /\ DOMAIN balances' = DOMAIN balances \cup {lcl[p].uid}
         /\ {r.tg_id : r \in users'} = DOMAIN balances'
         /\ \A u \in DOMAIN balances : balances'[u] = balances[u]
         /\ lock' = lock /\ credited_utx' = credited_utx /\ orders' = orders
         /\ \A q \in Procs \ {p} : pc'[q] = pc[q] /\ lcl'[q] = lcl[q]]_vars

\* the pass of customer 2's check ended in ensure_user with customer 2 still
\* unregistered and no block mined (no key clash and no write lock are
\* possible then: the derivation raised); the same task now runs a pass for
\* the registered customer 1
C16_Witness ==
    /\ height = 0
    /\ last.valid /\ last.raised /\ last.uid = 2 /\ last.pend = {}
    /\ \A r \in users : r.tg_id = 1
    /\ \E p \in Tasks : p = last.by /\ lcl[p].uid = 1 /\ pc[p] = "fetch"

\* C17: a purchase that cb_buy refuses changes no balance and creates no
\* order, and a balance is debited and an order created only for an active
\* product whose price the balance covers.
C17_RefusedPurchaseChangesNothing ==
    [][\A p \in Tasks :
         /\ (pc[p] = "buy_bal" /\ pc'[p] = "idle") =>
               balances' = balances /\ orders' = orders
         /\ (op[p] = "buy" /\ (balances' # balances \/ orders' # orders)) =>
               /\ lcl[p].pid \in DOMAIN products
               /\ products[lcl[p].pid].is_active = 1
               /\ pc[p] = "buy_sub" =>
                     ~LtcLess(balances[lcl[p].uid], lcl[p].price)]_vars

\* A step taken by task p.
StepOf(p) == pc'[p] # pc[p] \/ lcl'[p] # lcl[p]

\* C18: the pass of one cb_balance_check of a customer changes no other
\* customer's balance, and every credited_utx row it inserts carries the
\* requester's tg_id and an address that belongs to no other customer.
C18_CheckScopedToRequester ==
    [][\A p \in Tasks : (op[p] = "check" /\ StepOf(p) /\ epoch' = epoch) =>
         /\ \A u \in DOMAIN balances \ {lcl[p].uid} : balances'[u] = balances[u]
         /\ \A r \in lcl'[p].pending \cup (credited_utx' \ credited_utx) :
               /\ r.tg_id = lcl[p].uid
               /\ \A x \in users : x.tg_id # lcl[p].uid => x.ltc_address # r.address]_vars

\* C19: no step updates or deletes an orders row (every row stays, with
\* status PAID) or a committed credited_utx row: both tables only grow.
C19_OrdersAndCreditsPermanent ==
    [][/\ \A i \in DOMAIN orders :
             /\ i \in DOMAIN orders'
             /\ orders'[i] = orders[i]
             /\ orders'[i].status = "PAID"
       /\ Len(orders') >= Len(orders)
       /\ credited_utx \subseteq credited_utx']_vars

\* an order exists, the process has been restarted since the start, and the
\* only buying task is in a later purchase
C19_Witness ==
    /\ epoch = 1
    /\ Len(orders) = 1
    /\ orders[1].status = "PAID" /\ orders[1].id = 1
    /\ pc[1] = "buy_bal"

\* C20: the balance update that follows an uncommitted insert is applied
\* (the pass goes on with the next output, its count and the balance
\* raised), and a pass that has inserted a row returns a count >= 1.
C20_SecondConnectionUpdateApplies ==
    [][\A p \in Procs :
         /\ (pc[p] = "add_balance" /\ StepOf(p) /\ epoch' = epoch) =>
               /\ pc'[p] = "insert"
               /\ lcl'[p].credited = lcl[p].credited + 1
               /\ balances'[lcl[p].uid] =
                     LtcAdd(balances[lcl[p].uid], sat_to_ltc(Head(lcl[p].outs).value))
         /\ (Finishes(p) /\ lcl[p].pending # {}) =>
               Returns(p) /\ lcl'[p].credited >= 1]_vars

\* The watcher holds a fetched list for customer u that reports output k,
\* confirmed and not yet committed as credited.
WatcherSees(u, k) ==
    /\ pc[Watcher] = "insert"
    /\ lcl[Watcher].uid = u
    /\ k \in run[Watcher].fresh

\* C21: an incoming confirmed output that the watcher's fetches for a
\* customer report again and again is eventually credited to that customer.
C21_EventualCreditByWatcher ==
    \A u \in Users : \A k \in OutKeys :
        ([]<>WatcherSees(u, k)) => <>(ccount[u][k] >= 1)

\* The watcher over two customers: both register (task 1), the watcher
\* lists them and runs one pass per customer.
NextScan ==
    \/ \E p \in Procs : eu_select(p)
    \/ \E p \in Procs : eu_next(p)
    \/ \E p \in Procs : eu_insert(p)
    \/ \E p \in Procs : fetch(p)
    \/ \E p \in Procs : insert(p)
    \/ \E p \in Procs : add_balance_ltc(p)
    \/ \E p \in Procs : commit(p)
    \/ w_list
    \/ w_after
    \/ \E u \in Users : cmd_start(1, u)
    \/ Mine
    \/ Tick

SpecScan == Init /\ [][NextScan]_vars

\* C22: an iteration of deposit_watcher_loop is left from inside a
\* customer's pass (an exception) only when that customer is the last one
\* listed: every customer listed after a failing one is still scanned.
C22_CustomersIsolatedInIteration ==
    [][(pc[Watcher] \in PassPcs /\ pc'[Watcher] = "w_sleep" /\ epoch' = epoch)
          => Len(tg_ids) <= 1]_vars

\* No task is inside a handler or a pass.
Quiet == \A p \in Procs : pc[p] \in {"idle", "w_sleep"}

RECURSIVE RowsSat(_)
\* the sum of value_sat over a set of credited_utx rows
RowsSat(rows) ==
    IF rows = {} THEN 0
    ELSE LET r == CHOOSE x \in rows : TRUE
         IN  r.value_sat + RowsSat(rows \ {r})

RECURSIVE OrdersLtc(_, _)
\* the sum of amount_ltc over the orders rows of customer u
OrdersLtc(u, os) ==
    IF os = <<>> THEN LtcZero
    ELSE LtcAdd(IF Head(os).tg_id = u THEN Head(os).amount_ltc ELSE LtcZero,
                OrdersLtc(u, Tail(os)))

\* balance + sum of the customer's orders = sum of the customer's credits
Conserved(u) ==
    LtcAdd(balances[u], OrdersLtc(u, orders)) =
        sat_to_ltc(RowsSat({r \in credited_utx : r.tg_id = u}))

\* C23: after failure-free operations and with no task in progress, each
\* balance equals the customer's credited_utx values minus the customer's
\* order amounts; a balance is changed only by the credit of a pass
\* (add_balance_ltc) or by the debit of a purchase (sub_balance_ltc), and a
\* new balance starts at zero.
C23_BalanceConservation ==
    /\ []((Quiet /\ ~failed) => \A u \in DOMAIN balances : Conserved(u))
    /\ [][/\ \A u \in DOMAIN balances' \ DOMAIN balances : balances'[u] = LtcZero
          /\ \A u \in DOMAIN balances :
               balances'[u] # balances[u] =>
                 \E p \in Procs :
                    /\ lcl[p].uid = u
                    /\ \/ /\ pc[p] = "add_balance" /\ op[p] \in {"check", "watch"}
                          /\ balances'[u] =
                               LtcAdd(balances[u], sat_to_ltc(Head(lcl[p].outs).value))
                       \/ /\ pc[p] = "buy_sub" /\ op[p] = "buy"
                          /\ balances'[u] = LtcSub(balances[u], lcl[p].price)]_vars

\* a purchase has been debited and its order written, no operation has
\* failed, and nothing is in progress
C23_Witness ==
    /\ Quiet /\ ~failed
    /\ Len(orders) = 1 /\ orders[1].tg_id = 2
    /\ Len(debits[2]) = 1
    /\ balances[2] # LtcZero

\* the amounts of the PAID orders of customer u for product pid
RECURSIVE PaidAmounts(_, _)
PaidAmounts(u, os) ==
    IF os = <<>> THEN <<>>
    ELSE (IF Head(os).tg_id = u /\ Head(os).status = "PAID"
          THEN <<Head(os).amount_ltc>> ELSE <<>>) \o PaidAmounts(u, Tail(os))

\* C24: outside a purchase in progress, the committed debits of a customer
\* are exactly the amounts of the customer's committed PAID orders: no debit
\* without its order and no order without its debit.
C24_PurchaseAllOrNothing ==
    \A u \in Users :
        (\A p \in Tasks : ~(op[p] = "buy" /\ lcl[p].uid = u /\ pc[p] = "buy_order"))
            => debits[u] = PaidAmounts(u, orders)

\* The records of the data source that are not incoming outputs: tx_input_n
\* is present and not -1 (a spend), or the field is missing.
NotIncoming == {i \in DOMAIN ChainTx : ChainTx[i].tx_input_n # {-1}}

\* C25: a record whose tx_input_n is not -1 (or is missing) is in no list a
\* pass works on, in no credited_utx row, inserted or committed, and in no
\* balance credit.
C25_OnlyIncomingCredited ==
    \A i \in NotIncoming :
        LET t == ChainTx[i]
        IN  /\ \A p \in Procs :
                 /\ \A j \in DOMAIN lcl[p].outs : lcl[p].outs[j].tx_hash # t.tx_hash
                 /\ \A r \in lcl[p].pending : r.tx_hash # t.tx_hash
            /\ \A r \in credited_utx : r.tx_hash # t.tx_hash
            /\ \A u \in Users : ccount[u][OutKey(t)] = 0

\* a pass has fetched the list of the address whose records include t6
\* (tx_input_n missing, confirmed) and works on the incoming t4 alone
C25_Witness ==
    \E p \in Procs :
        /\ pc[p] = "insert"
        /\ HasUser(lcl[p].uid)
        /\ UserRow(lcl[p].uid).ltc_address = derive_ltc_address_from_xpub(1)
        /\ height = 2
        /\ Len(lcl[p].outs) = 1 /\ lcl[p].outs[1].tx_hash = "t4"

\* C26: a users row exists for a tg_id exactly when a balances row exists
\* for it, there is one users row per tg_id, and a pass or a purchase that
\* has gone through ensure_user works on a customer that has a balances row.
C26_EveryCustomerHasBalance ==
    /\ {r.tg_id : r \in users} = DOMAIN balances
    /\ \A r1, r2 \in users : r1.tg_id = r2.tg_id => r1 = r2
    /\ \A p \in Procs :
         pc[p] \in {"fetch", "insert", "add_balance", "commit", "reply",
                    "buy_bal", "buy_sub", "buy_order"}
            => lcl[p].uid \in DOMAIN balances

\* both customers are registered and a pass for one of them has reached
\* add_balance_ltc
C26_Witness ==
    /\ {r.tg_id : r \in users} = Users
    /\ \E p \in Procs : pc[p] = "add_balance" /\ lcl[p].uid \in DOMAIN balances

\* Reviews: the admin (user 1) prices product 1, customer 2 buys it in task
\* 1, and both users send review callbacks and texts.
NextReview ==
    \/ eu_select(1)
    \/ eu_next(1)
    \/ eu_insert(1)
    \/ \E pid \in BuyPids : cb_buy(1, 2, pid)
    \/ buy_bal(1)
    \/ sub_balance_ltc(1)
    \/ create_order_paid(1)
    \/ \E data \in PriceData : on_callback_query(1, data)
    \/ \E u \in Users, data \in ReviewData : on_callback_query(u, data)
    \/ \E u \in Users, text \in Texts : on_message(u, text)

SpecReview == Init /\ [][NextReview]_vars

\* C27: when a customer in no FSM state who has a PAID order for product P
\* sends callback data rev:add:P, the handler that runs is cb_review_add and
\* the customer's state becomes ReviewFlow.rating_product.
C27_ReviewFlowReachable ==
    (/\ StartsWith(handled.data, <<"rev", "add">>)
     /\ handled.state = "none"
     /\ handled.paid)
        => /\ handled.handler = "cb_review_add"
           /\ fsm[handled.uid].state = "ReviewFlow:rating_product"

\* The admin panel: every user sends every callback and every text, in a
\* deployment with ADMIN_ID unset or set to user 1.
NextAdmin ==
    \/ \E u \in Users, data \in AdminData : on_callback_query(u, data)
    \/ \E u \in Users, text \in AdminTexts : on_message(u, text)

SpecAdmin == InitAnyAdmin /\ [][NextAdmin]_vars

\* the handlers that write to the products table
CatalogWriters == {"cb_adm_toggle", "msg_adm_price", "msg_adm_delivery_text",
                   "msg_adm_add_price"}

\* C29: a step that changes the products table handles an update of the
\* user whose id is ADMIN_ID, with ADMIN_ID set, in one of the handlers that
\* call toggle_product, set_price, set_delivery or add_product; an update of
\* any other user, and any update when ADMIN_ID is 0, leaves the table as it
\* is.
C29_OnlyAdminChangesCatalog ==
    [][products' # products =>
          /\ ADMIN_ID > 0
          /\ handled'.uid = ADMIN_ID
          /\ handled'.handler \in CatalogWriters]_vars

\* the admin has switched product 1 off and added a product, and the update
\* handled last is a toggle sent by the other user
C29_Witness ==
    /\ ADMIN_ID = 1
    /\ products[1].is_active = 0
    /\ 5 \in DOMAIN products
    /\ handled.uid = 2 /\ handled.handler = "cb_adm_toggle"

\* C30: the turn of a pass on an output with value <= 0 moves on to the next
\* output and changes nothing else: no row inserted, no balance changed, the
\* count unchanged; no inserted or committed credited_utx row has a value
\* <= 0.
C30_NonPositiveSkipped ==
    [][/\ \A p \in Procs :
            (/\ pc[p] = "insert" /\ StepOf(p) /\ epoch' = epoch
             /\ lcl[p].outs # <<>> /\ Head(lcl[p].outs).value <= 0)
               => /\ pc'[p] = "insert"
                  /\ lcl'[p] = [lcl[p] EXCEPT !.outs = Tail(@)]
                  /\ balances' = balances
                  /\ credited_utx' = credited_utx
                  /\ ccount' = ccount
       /\ \A r \in credited_utx' : r.value_sat > 0
       /\ \A p \in Procs : \A r \in lcl'[p].pending : r.value_sat > 0]_vars

\* a pass has fetched [t2 (value 0), t1], has skipped t2 and is at t1 with
\* nothing inserted and nothing counted
C30_Witness ==
    \E p \in Procs :
        /\ pc[p] = "insert"
        /\ height = 1
        /\ Len(lcl[p].outs) = 1 /\ lcl[p].outs[1].tx_hash = "t1"
        /\ lcl[p].pending = {} /\ lcl[p].credited = 0

====
